---- MODULE Spec2Model ----
(***************************************************************************)
(* Model of control.py, the R720 fan controller: the usage sampler thread  *)
(* (monitor_usage) and the main control loop (main), which reads the       *)
(* sensors, proposes a speed and applies it through ipmitool with an       *)
(* immediate-increase / delayed-decrease policy; the startup commands and  *)
(* cleanup_handler, the SIGTERM/SIGINT handler.                            *)
(*                                                                         *)
(* Units: temperatures in whole degrees C, usage in whole percent, time in *)
(* whole seconds; temp_rate is kept in tenths of a degree per second       *)
(* ((max - min) / 5 = 2 * (max - min) tenths), so `temp_rate > 0.5` reads  *)
(* temp_rate > 5; usage_avg is kept as the exact pair <<sum, len>>.        *)
(***************************************************************************)
EXTENDS Integers, Sequences, FiniteSets, TLC

VARIABLES
    \* ---- globals of control.py (lines 26-39)
    usage, last_usage, usage_avg, usage_window, spike_detected, spike_size,
    max_temp, last_max_temp, temp_window,
    current_speed, cooldown_end, drop_delay_start, last_trigger,
    \* ---- locals of main()
    temp_rate, new_speed, reason, now,
    \* ---- control positions: main loop and monitor_usage thread
    pc, spc,
    \* ---- environment: level byte last accepted by the BMC, the PID file, the exit
    \* ---- status of the process (-1 while it runs)
    fan_byte, pid_file, exit_status,
    \* ---- history of the current tick and of the run (observers only)
    pre, act, notes, ss_read, interrupted, cancel,
    tick_no, samples,
    \* ---- fresh: spike_detected holds a True of the sampler that no tick has read;
    \* ---- lost: how such a True was destroyed unread since the last tick began;
    \* ---- last_cmd: the last raw command handed to ipmitool; restore: what the
    \* ---- restore command of cleanup_handler did
    fresh, lost, last_cmd, restore

vars == <<usage, last_usage, usage_avg, usage_window, spike_detected, spike_size,
          max_temp, last_max_temp, temp_window,
          current_speed, cooldown_end, drop_delay_start, last_trigger,
          temp_rate, new_speed, reason, now, pc, spc, fan_byte,
          pre, act, notes, ss_read, interrupted, cancel,
          tick_no, samples, pid_file, exit_status, fresh, lost, last_cmd, restore>>

sampler_vars == <<usage, last_usage, usage_avg, usage_window, spike_size, samples, spc>>
temp_vars    == <<max_temp, last_max_temp, temp_window, temp_rate>>
ctl_vars     == <<current_speed, cooldown_end, drop_delay_start, last_trigger>>
hist_vars    == <<interrupted, cancel>>
life_vars    == <<pid_file, last_cmd, restore>>
flag_vars    == <<fresh, lost>>

---------------------------------------------------------------------------
\* Program constants
HOLD_TIME     == 30
DROP_DELAY    == 30
WINDOW_MAXLEN == 25
RETRIES       == 3
RATE_SPAN     == 5   \* window entries the temperature rate is taken over

\* Bounds of the model
MaxTicks        == 4   \* main-loop iterations explored under Spec
MaxSamples      == 1   \* usage samples explored under Spec
MaxQuietTicks   == 5   \* main-loop iterations explored under SpecQuiet
MaxQuietSamples == 1   \* usage samples explored under SpecQuiet
MaxBandTicks    == 2   \* main-loop iterations explored under SpecSpike
MaxBandSamples  == 2   \* usage samples explored under SpecSpike
MaxTempTicks    == 6   \* main-loop iterations explored under SpecTemp
MaxTempSamples  == 1   \* usage samples explored under SpecTemp
MaxLifeTicks    == 2   \* main-loop iterations explored under SpecLife
MaxLifeSamples  == 1   \* usage samples explored under SpecLife
MaxLiveTicks    == 4   \* main-loop iterations explored under SpecLive
MaxLiveSamples  == 1   \* usage samples explored under SpecLive
StartTime       == 1   \* time.time() when the loop is entered (any value > 0)

Levels == {25, 40, 60, 80, 100}

\* Input domains
Steps      == {1, 30}                 \* seconds from one tick's clock read to the next
Temps      == {25, 50}                \* Spec: proposals 25 and 100 from the sensors ...
Usages     == {10, 40}                \* ... and 40 and 100 from usage spikes
QuietTemps == {25, 50}                \* SpecQuiet: proposals 25 and 100, constant usage
QuietUsages == {0}
BandUsages == {0, 5, 10, 25, 40}      \* SpecSpike: deltas 5, 10, 15, 20, 25, 30, 35, 40
BandTemps  == {20, 55}
BandSteps  == {1}
TempTemps  == {26, 29, 30, 40, 45, 49, 50}   \* SpecTemp: each band edge, rises of 3 below 30
WarmTemps  == {26, 29}                \* SpecTemp: readings while the window fills
LiveSteps  == {15, 30}                \* SpecLive: DROP_DELAY is two ticks or one tick away
Attempts  == [1..RETRIES -> BOOLEAN]        \* exit status of each ipmitool run (TRUE = 0)

---------------------------------------------------------------------------
\* Helpers

Max2(a, b) == IF a >= b THEN a ELSE b

RECURSIVE SeqSum(_)
SeqSum(s) == IF s = <<>> THEN 0 ELSE Head(s) + SeqSum(Tail(s))

RECURSIVE SeqMin(_)
SeqMin(s) == IF Len(s) = 1 THEN s[1]
             ELSE LET m == SeqMin(Tail(s)) IN IF Head(s) <= m THEN Head(s) ELSE m

\* deque(maxlen=25).append
DequeAppend(w, x) == IF Len(w) < WINDOW_MAXLEN THEN Append(w, x) ELSE Append(Tail(w), x)

\* list(temp_window)[-5:]
Last5(w) == IF Len(w) <= RATE_SPAN THEN w ELSE SubSeq(w, Len(w) - RATE_SPAN + 1, Len(w))

\* line 159, in tenths
TempRate(mt, w) == IF Len(w) >= RATE_SPAN THEN 2 * (mt - SeqMin(Last5(w))) ELSE 0

\* run_ipmitool: TRUE as soon as one attempt returns 0, FALSE after RETRIES failures
run_ipmitool(res) == \E i \in 1..RETRIES : res[i]

\* set_fan_speed: the level byte looked up for a speed (0x19 = 25, ... , 0x64 = 100)
hex_speed(speed) == IF speed \in Levels THEN speed ELSE 25

NoTrigger == [usage |-> <<0, 1>>, temp |-> 0, time |-> 0, reason |-> ""]
\* What a tick did: the branch of line 167 it took (prop), the branch of lines 209-243
\* it took (branch), whether set_fan_speed was called, with which level byte,
\* whether it returned True, what line 210 read from spike_detected (sd210), and
\* whether the flag line 167 read was one no earlier tick had read (fresh)
NoAct     == [prop |-> "none", branch |-> "none", called |-> FALSE, level |-> 0,
              ok |-> FALSE, sd210 |-> <<>>, fresh |-> FALSE]
NoCancel  == [seen |-> FALSE, first_lower |-> 0]
\* cleanup_handler has not run: no attempt of the restore command yet
NoRestore == [tries |-> 0, ok |-> FALSE, why |-> "none", sets |-> 0, again |-> "no"]

Sensors == {"inlet", "exhaust", "cpu1", "cpu2"}

\* The four readings of one sensor table: one sensor at t, the others at lo
Readings(T) == { [s \in Sensors |-> IF s = h THEN t ELSE 20] : t \in T, h \in {"inlet", "cpu2"} }

\* What get_sensor_data can hand back to line 153, or raise
SensorKinds == {"ok",            \* a dict with the four readings
                "tool_failed",   \* CalledProcessError: None
                "no_rows",       \* no row matched: {} (falsy)
                "missing_row",   \* a dict lacking a key: KeyError at line 155
                "bad_row",       \* a matching row with no second column: IndexError
                "bad_value"}     \* float() of a non-number: ValueError, not caught

\* the kinds on which line 153 or line 155 raises
RaisingKinds == {"missing_row", "bad_row", "bad_value"}

\* what line 153-154 makes of a read: the update runs, is skipped, or main dies
ReadOutcome(kind) ==
    IF kind = "ok" THEN "ok" ELSE IF kind \in RaisingKinds THEN "raised" ELSE "skipped"

\* positions of main inside `while running` (lines 152-245); the sampler thread is
\* started at line 150 and, being a daemon thread, ends with the process
LoopPcs == {"sense", "spike?", "cmp25", "cmp15", "cmp10", "temp", "apply", "clear"}

---------------------------------------------------------------------------
\* The state when the loop is entered: manual mode enabled, speed 25 set (lines 141-150)
Init ==
    /\ usage = 0 /\ last_usage = 0 /\ usage_avg = <<0, 1>> /\ usage_window = <<>>
    /\ spike_detected = FALSE /\ spike_size = 0
    /\ max_temp = 25 /\ last_max_temp = 25 /\ temp_window = <<>>
    /\ current_speed = 25 /\ cooldown_end = 0 /\ drop_delay_start = 0
    /\ last_trigger = NoTrigger
    /\ temp_rate = 0 /\ new_speed = 25 /\ reason = "" /\ now = StartTime
    /\ pc = "sense" /\ spc = "sample"
    /\ fan_byte = hex_speed(25)
    /\ pre = [cur |-> 25, cool |-> 0, dds |-> 0, lt |-> NoTrigger,
              last |-> [branch |-> "none", ok |-> FALSE, target |-> 25],
              sensor |-> "ok", mt |-> 25, lmt |-> 25, tw |-> <<>>]
    /\ act = NoAct /\ notes = <<>> /\ ss_read = <<>>
    /\ interrupted = FALSE /\ cancel = NoCancel
    /\ tick_no = 0 /\ samples = 0
    /\ pid_file = TRUE /\ exit_status = -1
    /\ fresh = FALSE /\ lost = "no" /\ last_cmd = "set" /\ restore = NoRestore

---------------------------------------------------------------------------
\* monitor_usage, lines 44-48: take a sample, update the window, the mean and the delta
SampleUsage(U, n) ==
    /\ spc = "sample" /\ pc \in LoopPcs /\ samples < n
    /\ \E u \in U :
         /\ last_usage' = usage
         /\ usage' = u
         /\ usage_window' = DequeAppend(usage_window, u)
         /\ usage_avg' = <<SeqSum(usage_window'), Len(usage_window')>>
         /\ spike_size' = u - usage
    /\ samples' = samples + 1
    /\ spc' = "flag"
    /\ UNCHANGED <<spike_detected, temp_vars, ctl_vars, new_speed, reason, now, pc,
                   fan_byte, pre, act, notes, ss_read, hist_vars, tick_no,
                   life_vars, exit_status, flag_vars>>

\* line 49
IsSpike(size) == size > 5

\* history: a store of False to spike_detected that destroys a True no tick has
\* read is a lost detection; the first one since the tick began is kept, with the
\* store that destroyed it
Lost(how) == IF lost = "no" /\ fresh THEN how ELSE lost

\* monitor_usage, lines 49-51: publish the flag, sleep
SetSpike ==
    /\ spc = "flag" /\ pc \in LoopPcs
    /\ spike_detected' = IsSpike(spike_size)
    /\ fresh' = IsSpike(spike_size)
    /\ lost' = IF IsSpike(spike_size) THEN lost ELSE Lost("overwritten by the next sample")
    /\ spc' = "sample"
    /\ UNCHANGED <<usage, last_usage, usage_avg, usage_window, spike_size, samples,
                   temp_vars, ctl_vars, new_speed, reason, now, pc,
                   fan_byte, pre, act, notes, ss_read, hist_vars, tick_no,
                   life_vars, exit_status>>

---------------------------------------------------------------------------
\* line 155
MaxReading(r) == Max2(Max2(r["inlet"], r["exhaust"]), Max2(r["cpu1"], r["cpu2"]))

\* main, lines 153-164: read the sensors, update the temperature state, reset the
\* proposal and read the clock.  d is the time since the previous clock read.
\* pre also keeps what the read handed back, the temperature state before it, and
\* the branch, result and proposal of the tick before (last).
Sense(T, D, n) ==
    /\ pc = "sense" /\ tick_no < n
    /\ \E kind \in SensorKinds :
         IF kind \in RaisingKinds
         THEN /\ pc' = "crashed"
              /\ pre' = [pre EXCEPT !.sensor = ReadOutcome(kind), !.mt = max_temp,
                                    !.lmt = last_max_temp, !.tw = temp_window]
              /\ act' = NoAct
              /\ UNCHANGED <<temp_vars, new_speed, reason, now, notes, ss_read>>
         ELSE /\ IF kind = "ok"
                 THEN \E r \in Readings(T) :
                      /\ max_temp' = MaxReading(r)
                      /\ temp_window' = DequeAppend(temp_window, max_temp')
                      /\ temp_rate' = TempRate(max_temp', temp_window')
                      /\ last_max_temp' = max_temp'
                 ELSE UNCHANGED temp_vars
              /\ new_speed' = current_speed
              /\ reason' = ""
              /\ \E d \in D : now' = now + d
              /\ pre' = [cur |-> current_speed, cool |-> cooldown_end,
                         dds |-> drop_delay_start, lt |-> last_trigger,
                         last |-> [branch |-> act.branch, ok |-> act.ok,
                                   target |-> new_speed],
                         sensor |-> ReadOutcome(kind), mt |-> max_temp, lmt |-> last_max_temp,
                         tw |-> temp_window]
              /\ act' = NoAct /\ notes' = <<>> /\ ss_read' = <<>>
              /\ pc' = "spike?"
    /\ tick_no' = tick_no + 1
    /\ exit_status' = IF pc' = "crashed" THEN 1 ELSE exit_status
    /\ lost' = "no"
    /\ UNCHANGED <<usage, last_usage, usage_avg, usage_window, spike_size, samples, spc,
                   spike_detected, ctl_vars, fan_byte, hist_vars, life_vars, fresh>>

\* main, line 167: the first read of spike_detected picks the branch
CheckSpike ==
    /\ pc = "spike?"
    /\ pc' = IF spike_detected THEN "cmp25" ELSE "temp"
    /\ act' = [act EXCEPT !.prop = IF spike_detected THEN "spike" ELSE "temp",
                          !.fresh = fresh]
    /\ fresh' = IF spike_detected THEN FALSE ELSE fresh
    /\ UNCHANGED lost
    /\ UNCHANGED <<usage, last_usage, usage_avg, usage_window, spike_size, samples, spc,
                   spike_detected, temp_vars, ctl_vars, new_speed, reason, now,
                   fan_byte, pre, notes, ss_read, hist_vars, tick_no,
                   life_vars, exit_status>>

\* One comparison of the spike cascade: a fresh read of spike_size against a band edge
SpikeStep(here, edge, speed, why, next, speed_else, why_else) ==
    /\ pc = here
    /\ ss_read' = Append(ss_read, spike_size)
    /\ IF spike_size > edge
       THEN new_speed' = speed /\ reason' = why /\ pc' = "apply"
       ELSE IF next = "apply"
            THEN new_speed' = speed_else /\ reason' = why_else /\ pc' = "apply"
            ELSE UNCHANGED <<new_speed, reason>> /\ pc' = next
    /\ UNCHANGED <<usage, last_usage, usage_avg, usage_window, spike_size, samples, spc,
                   spike_detected, temp_vars, ctl_vars, now,
                   fan_byte, pre, act, notes, hist_vars, tick_no,
                   life_vars, exit_status, flag_vars>>

\* main, lines 168-170
Cmp25 == SpikeStep("cmp25", 25, 100, "extreme usage spike", "cmp15", 0, "")
\* main, lines 171-173
Cmp15 == SpikeStep("cmp15", 15, 80, "large usage spike", "cmp10", 0, "")
\* Cmp10 with the smallest spike proposing a speed between two levels
Cmp10_Midpoint == SpikeStep("cmp10", 10, 60, "moderate usage spike", "apply", 30, "small usage spike")

\* main, lines 174-179
Cmp10 == SpikeStep("cmp10", 10, 60, "moderate usage spike", "apply", 40, "small usage spike")

\* TempProposal with the 45-degree edge tested strictly
TempProposal_StrictEdge(mt, wlen, rate) ==
    IF mt >= 50 THEN <<100, "high temp">>
    ELSE IF mt > 45 THEN <<80, "moderate temp">>
    ELSE IF mt >= 40 THEN <<60, "sustained temp">>
    ELSE IF mt >= 30 THEN <<40, "idle temp">>
    ELSE IF wlen >= RATE_SPAN /\ rate > 5 THEN <<80, "fast temp rise">>
    ELSE <<25, "low temp">>

\* main, lines 183-206: the temperature bands, then the fast-rise override
TempProposal(mt, wlen, rate) ==
    IF mt >= 50 THEN <<100, "high temp">>
    ELSE IF mt >= 45 THEN <<80, "moderate temp">>
    ELSE IF mt >= 40 THEN <<60, "sustained temp">>
    ELSE IF mt >= 30 THEN <<40, "idle temp">>
    ELSE IF wlen >= RATE_SPAN /\ rate > 5 THEN <<80, "fast temp rise">>
    ELSE <<25, "low temp">>

TempBranch ==
    /\ pc = "temp"
    /\ LET p == TempProposal(max_temp, Len(temp_window), temp_rate)
       IN  new_speed' = p[1] /\ reason' = p[2]
    /\ pc' = "apply"
    /\ UNCHANGED <<usage, last_usage, usage_avg, usage_window, spike_size, samples, spc,
                   spike_detected, temp_vars, ctl_vars, now,
                   fan_byte, pre, act, notes, ss_read, hist_vars, tick_no,
                   life_vars, exit_status, flag_vars>>

---------------------------------------------------------------------------
\* line 210 reads spike_detected only when `new_speed > current_speed` is false
Read210 ==
    IF new_speed # current_speed /\ ~(new_speed > current_speed) THEN <<spike_detected>> ELSE <<>>

\* Differs with the outer test of line 209 letting a flagged spike through
Differs_OrSpike(ns, cs) == ns # cs \/ spike_detected

\* line 209: is there a change to make
Differs(ns, cs) == ns # cs

\* IsIncrease with an increase taken only while no decrease is pending
IsIncrease_WhenIdle(ns, cs, sd) == (ns > cs /\ drop_delay_start = 0) \/ (sd /\ ns >= cs)

\* line 210: the immediate-apply test
IsIncrease(ns, cs, sd) == ns > cs \/ (sd /\ ns >= cs)

\* DropDue with the drop-delay test left out
DropDue_NoDelay(t, dds, ce) == t >= ce

\* line 226: the two guards of a pending decrease
DropDue(t, dds, ce) == t - dds >= DROP_DELAY /\ t >= ce

\* Commit without the new hold period
Commit_NoHold ==
    /\ current_speed' = new_speed
    /\ drop_delay_start' = 0
    /\ last_trigger' = [usage |-> usage_avg, temp |-> max_temp, time |-> now, reason |-> reason]
    /\ UNCHANGED cooldown_end

\* lines 214-217 and 230-233: the state written after a successful set_fan_speed
Commit ==
    /\ current_speed' = new_speed
    /\ cooldown_end' = now + HOLD_TIME
    /\ drop_delay_start' = 0
    /\ last_trigger' = [usage |-> usage_avg, temp |-> max_temp, time |-> now, reason |-> reason]

\* notify sending for an increase only
notify_IncreasedOnly(direction, speed, why) ==
    IF direction = "Increased"
    THEN Append(notes, [direction |-> direction, speed |-> speed, reason |-> why])
    ELSE notes

\* lines 107-120: notify sends for the two directions only (a failed delivery is
\* caught and logged, and changes nothing)
notify(direction, speed, why) ==
    IF direction \in {"Increased", "Decreased"}
    THEN Append(notes, [direction |-> direction, speed |-> speed, reason |-> why])
    ELSE notes

\* SetSpeed with a failed call abandoning the pending decrease
SetSpeed_ClearsOnFailure(direction, res, rpm1, rpm2) ==
    /\ act' = [act EXCEPT !.called = TRUE, !.level = hex_speed(new_speed),
                          !.ok = run_ipmitool(res),
                          !.branch = IF direction = "Increased" THEN "increase" ELSE "decrease",
                          !.sd210 = Read210]
    /\ IF run_ipmitool(res)
       THEN /\ fan_byte' = hex_speed(new_speed)
            /\ IF rpm1
               THEN /\ Commit
                    /\ IF rpm2
                       THEN /\ notes' = notify(direction, current_speed', reason)
                            /\ pc' = "clear"
                       ELSE /\ pc' = "crashed"
                            /\ UNCHANGED notes
               ELSE /\ pc' = "crashed"
                    /\ UNCHANGED <<ctl_vars, notes>>
       ELSE /\ pc' = "clear"
            /\ drop_delay_start' = 0
            /\ UNCHANGED <<fan_byte, current_speed, cooldown_end, last_trigger, notes>>

\* lines 211-220 and 227-236: call set_fan_speed(new_speed) and, if it returned True,
\* log (get_fan_rpm), write the state and notify (get_fan_rpm again).  get_fan_rpm
\* raises ValueError (not caught) when its pipeline prints nothing: rpm1 and rpm2 say
\* whether the two calls returned.
SetSpeed(direction, res, rpm1, rpm2) ==
    /\ act' = [act EXCEPT !.called = TRUE, !.level = hex_speed(new_speed),
                          !.ok = run_ipmitool(res),
                          !.branch = IF direction = "Increased" THEN "increase" ELSE "decrease",
                          !.sd210 = Read210]
    /\ IF run_ipmitool(res)
       THEN /\ fan_byte' = hex_speed(new_speed)
            /\ IF rpm1
               THEN /\ Commit
                    /\ IF rpm2
                       THEN /\ notes' = notify(direction, current_speed', reason)
                            /\ pc' = "clear"
                       ELSE /\ pc' = "crashed"
                            /\ UNCHANGED notes
               ELSE /\ pc' = "crashed"
                    /\ UNCHANGED <<ctl_vars, notes>>
       ELSE /\ pc' = "clear"
            /\ UNCHANGED <<fan_byte, ctl_vars, notes>>

\* StartDelay leaving the drop timer unset
StartDelay_Unset ==
    /\ act' = [act EXCEPT !.branch = "start", !.sd210 = Read210]
    /\ pc' = "clear"
    /\ UNCHANGED <<ctl_vars, fan_byte, notes>>

\* lines 223-225: the first lower proposal starts the drop timer
StartDelay ==
    /\ drop_delay_start' = now
    /\ act' = [act EXCEPT !.branch = "start", !.sd210 = Read210]
    /\ pc' = "clear"
    /\ UNCHANGED <<current_speed, cooldown_end, last_trigger, fan_byte, notes>>

\* HoldDrop with the drop timer started again
HoldDrop_Restart ==
    /\ drop_delay_start' = now
    /\ act' = [act EXCEPT !.branch = "hold", !.sd210 = Read210]
    /\ pc' = "clear"
    /\ UNCHANGED <<current_speed, cooldown_end, last_trigger, fan_byte, notes>>

\* lines 237-239: a pending decrease that is not due yet
HoldDrop ==
    /\ act' = [act EXCEPT !.branch = "hold", !.sd210 = Read210]
    /\ pc' = "clear"
    /\ UNCHANGED <<ctl_vars, fan_byte, notes>>

\* NoChange leaving a pending decrease in place
NoChange_KeepTimer ==
    /\ act' = [act EXCEPT !.branch = "nochange", !.sd210 = Read210]
    /\ pc' = "clear"
    /\ UNCHANGED <<ctl_vars, fan_byte, notes>>

\* lines 240-242: the proposal matches current_speed
NoChange ==
    /\ drop_delay_start' = 0
    /\ act' = [act EXCEPT !.branch = "nochange", !.sd210 = Read210]
    /\ pc' = "clear"
    /\ UNCHANGED <<current_speed, cooldown_end, last_trigger, fan_byte, notes>>

\* history: has a tick proposed a target >= current_speed since the drop timer started
Interrupted(branch) ==
    IF branch = "start" THEN FALSE
    ELSE IF branch \in {"increase", "nochange"} THEN TRUE
    ELSE interrupted

\* history: was a pending decrease cancelled, and when was the first lower proposal
\* after the last cancelling tick
Cancel(branch) ==
    IF branch = "nochange" /\ drop_delay_start # 0 THEN [seen |-> TRUE, first_lower |-> 0]
    ELSE IF branch \in {"start", "hold", "decrease"} /\ cancel.seen /\ cancel.first_lower = 0
         THEN [cancel EXCEPT !.first_lower = now]
    ELSE cancel

\* does this tick reach a set_fan_speed call (lines 211, 227)
NeedsActuator ==
    /\ Differs(new_speed, current_speed)
    /\ \/ IsIncrease(new_speed, current_speed, spike_detected)
       \/ drop_delay_start # 0 /\ DropDue(now, drop_delay_start, cooldown_end)

\* what the environment answers to one set_fan_speed call and the two get_fan_rpm
\* calls after it: the attempts' exit statuses, and whether each get_fan_rpm returns
SetOutcomes(needed) ==
    IF needed
    THEN { <<res, TRUE, TRUE>> : res \in Attempts }
           \cup { <<[i \in 1..RETRIES |-> TRUE], r1, r2>> : r1 \in BOOLEAN, r2 \in BOOLEAN }
    ELSE { <<[i \in 1..RETRIES |-> TRUE], TRUE, TRUE>> }

\* main, lines 209-243: compare the proposal with current_speed and act on it
Apply ==
    /\ pc = "apply"
    /\ \E o \in SetOutcomes(NeedsActuator) :
         IF Differs(new_speed, current_speed)
         THEN IF IsIncrease(new_speed, current_speed, spike_detected)
              THEN /\ SetSpeed("Increased", o[1], o[2], o[3])
                   /\ spike_detected' = IF pc' = "crashed" THEN spike_detected ELSE FALSE
              ELSE IF drop_delay_start = 0
              THEN StartDelay /\ UNCHANGED spike_detected
              ELSE IF DropDue(now, drop_delay_start, cooldown_end)
              THEN SetSpeed("Decreased", o[1], o[2], o[3]) /\ UNCHANGED spike_detected
              ELSE HoldDrop /\ UNCHANGED spike_detected
         ELSE NoChange /\ UNCHANGED spike_detected
    /\ interrupted' = Interrupted(act'.branch)
    /\ cancel' = Cancel(act'.branch)
    /\ fresh' = (fresh /\ spike_detected')
    /\ lost' = IF spike_detected' = spike_detected THEN lost ELSE Lost("cleared at line 221")
    /\ exit_status' = IF pc' = "crashed" THEN 1 ELSE exit_status
    /\ UNCHANGED <<usage, last_usage, usage_avg, usage_window, spike_size, samples, spc,
                   temp_vars, new_speed, reason, now, pre, ss_read, tick_no, life_vars>>

\* EndTick without the clear of line 244
EndTick_NoClear ==
    /\ pc = "clear"
    /\ pc' = "sense"
    /\ UNCHANGED <<usage, last_usage, usage_avg, usage_window, spike_size, samples, spc,
                   spike_detected, flag_vars, temp_vars, ctl_vars, new_speed, reason, now,
                   fan_byte, pre, act, notes, ss_read, hist_vars, tick_no,
                   life_vars, exit_status>>

\* main, lines 244-245: clear the flag, sleep one second
EndTick ==
    /\ pc = "clear"
    /\ spike_detected' = FALSE
    /\ fresh' = FALSE
    /\ lost' = Lost("cleared at line 244")
    /\ pc' = "sense"
    /\ UNCHANGED <<usage, last_usage, usage_avg, usage_window, spike_size, samples, spc,
                   temp_vars, ctl_vars, new_speed, reason, now,
                   fan_byte, pre, act, notes, ss_read, hist_vars, tick_no,
                   life_vars, exit_status>>

---------------------------------------------------------------------------
\* Startup and shutdown

\* The state at line 141: handlers installed, PID file written, nothing sent to the BMC
InitBoot ==
    /\ usage = 0 /\ last_usage = 0 /\ usage_avg = <<0, 1>> /\ usage_window = <<>>
    /\ spike_detected = FALSE /\ spike_size = 0
    /\ max_temp = 25 /\ last_max_temp = 25 /\ temp_window = <<>>
    /\ current_speed = 25 /\ cooldown_end = 0 /\ drop_delay_start = 0
    /\ last_trigger = NoTrigger
    /\ temp_rate = 0 /\ new_speed = 25 /\ reason = "" /\ now = StartTime
    /\ pc = "enable" /\ spc = "sample"
    /\ fan_byte = 0
    /\ pre = [cur |-> 25, cool |-> 0, dds |-> 0, lt |-> NoTrigger,
              last |-> [branch |-> "none", ok |-> FALSE, target |-> 25],
              sensor |-> "ok", mt |-> 25, lmt |-> 25, tw |-> <<>>]
    /\ act = NoAct /\ notes = <<>> /\ ss_read = <<>>
    /\ interrupted = FALSE /\ cancel = NoCancel
    /\ tick_no = 0 /\ samples = 0
    /\ pid_file = TRUE /\ exit_status = -1
    /\ fresh = FALSE /\ lost = "no" /\ last_cmd = "none" /\ restore = NoRestore

\* attempts run_ipmitool makes: up to the first that returns 0, RETRIES if none does
Tries(res) ==
    IF run_ipmitool(res) THEN CHOOSE i \in 1..RETRIES : res[i] /\ \A j \in 1..(i - 1) : ~res[j]
    ELSE RETRIES

\* when a second signal interrupts cleanup_handler, if one does
SecondSignal == {"no", "during_restore", "after_remove"}

\* cleanup_handler without the restore command
cleanup_handler_NoRestore(why, sets, res, again) ==
    /\ restore' = [tries |-> 0, ok |-> FALSE, why |-> why, sets |-> sets, again |-> again]
    /\ pid_file' = FALSE
    /\ exit_status' = IF again = "after_remove" THEN 1 ELSE 0
    /\ pc' = "exited"
    /\ UNCHANGED last_cmd

\* lines 122-128: run the restore command (with its retries), remove the PID file,
\* sys.exit(0).  why says who called it, sets how many set-speed attempts the
\* interrupted tick had started.  A second signal runs the handler again inside the
\* first: during the restore command it sends the command itself and exits; after
\* os.remove its own os.remove raises FileNotFoundError.
cleanup_handler(why, sets, res, again) ==
    /\ restore' = [tries |-> Tries(res), ok |-> run_ipmitool(res), why |-> why,
                   sets |-> sets, again |-> again]
    /\ last_cmd' = "restore"
    /\ pid_file' = FALSE
    /\ exit_status' = IF again = "after_remove" THEN 1 ELSE 0
    /\ pc' = "exited"

\* lines 143-145: enable manual fan control, or give up
EnableManual ==
    /\ pc = "enable"
    /\ \E res \in Attempts :
         IF run_ipmitool(res)
         THEN /\ last_cmd' = "manual"
              /\ pc' = "init_speed"
              /\ UNCHANGED <<restore, pid_file, exit_status>>
         ELSE \E res2 \in Attempts : cleanup_handler("enable", 0, res2, "no")
    /\ UNCHANGED <<sampler_vars, spike_detected, temp_vars, ctl_vars, new_speed, reason,
                   now, fan_byte, pre, act, notes, ss_read, hist_vars, tick_no, flag_vars>>

\* lines 146-150: set the initial speed and start the sampler thread, or give up
InitSpeed ==
    /\ pc = "init_speed"
    /\ \E res \in Attempts :
         IF run_ipmitool(res)
         THEN /\ last_cmd' = "set"
              /\ fan_byte' = hex_speed(current_speed)
              /\ pc' = "sense"
              /\ UNCHANGED <<restore, pid_file, exit_status>>
         ELSE /\ \E res2 \in Attempts : cleanup_handler("init_speed", RETRIES, res2, "no")
              /\ UNCHANGED fan_byte
    /\ UNCHANGED <<sampler_vars, spike_detected, temp_vars, ctl_vars, new_speed, reason,
                   now, pre, act, notes, ss_read, hist_vars, tick_no, flag_vars>>

\* SIGTERM or SIGINT while main is in the loop: cleanup_handler runs between two
\* bytecodes of main, or inside the call main is blocked in.  When main is in
\* set_fan_speed (lines 211, 227), k attempts have been started; the one in flight
\* may or may not have reached the BMC before its process is killed.
Signal ==
    /\ pc \in LoopPcs
    /\ \E k \in 0..RETRIES, res \in Attempts, again \in SecondSignal :
         /\ k > 0 => (pc = "apply" /\ NeedsActuator)
         /\ fan_byte' \in {fan_byte} \cup (IF k > 0 THEN {hex_speed(new_speed)} ELSE {})
         /\ cleanup_handler("signal", k, res, again)
    /\ UNCHANGED <<sampler_vars, spike_detected, temp_vars, ctl_vars, new_speed, reason,
                   now, pre, act, notes, ss_read, hist_vars, tick_no, flag_vars>>

\* The whole life of the process: startup, the loop, a termination signal
NextLife ==
    \/ EnableManual
    \/ InitSpeed
    \/ Signal
    \/ SampleUsage(Usages, MaxLifeSamples)
    \/ SetSpike
    \/ Sense(Temps, BandSteps, MaxLifeTicks)
    \/ CheckSpike
    \/ Cmp25
    \/ Cmp15
    \/ Cmp10
    \/ TempBranch
    \/ Apply
    \/ EndTick

SpecLife == InitBoot /\ [][NextLife]_vars

---------------------------------------------------------------------------
\* The whole program under coarse inputs: the timing of increases and decreases
Next ==
    \/ SampleUsage(Usages, MaxSamples)
    \/ SetSpike
    \/ Sense(Temps, Steps, MaxTicks)
    \/ CheckSpike
    \/ Cmp25
    \/ Cmp15
    \/ Cmp10
    \/ TempBranch
    \/ Apply
    \/ EndTick

Spec == Init /\ [][Next]_vars

\* Longer runs under constant CPU usage: no sample is a spike, so the spike cascade
\* (Cmp25, Cmp15, Cmp10) is never enabled
NextQuiet ==
    \/ SampleUsage(QuietUsages, MaxQuietSamples)
    \/ SetSpike
    \/ Sense(QuietTemps, Steps, MaxQuietTicks)
    \/ CheckSpike
    \/ TempBranch
    \/ Apply
    \/ EndTick

SpecQuiet == Init /\ [][NextQuiet]_vars

\* Short runs over every spike band
NextSpike ==
    \/ SampleUsage(BandUsages, MaxBandSamples)
    \/ SetSpike
    \/ Sense(BandTemps, BandSteps, MaxBandTicks)
    \/ CheckSpike
    \/ Cmp25
    \/ Cmp15
    \/ Cmp10
    \/ TempBranch
    \/ Apply
    \/ EndTick

SpecSpike == Init /\ [][NextSpike]_vars

\* Runs over every temperature band under constant CPU usage.  The sensors read
\* low until the window is one entry short of the span the rate needs, so that the
\* runs reach windows of RATE_SPAN entries and more.
WarmedTemps == IF Len(temp_window) < RATE_SPAN - 1 THEN WarmTemps ELSE TempTemps

NextTemp ==
    \/ SampleUsage(QuietUsages, MaxTempSamples)
    \/ SetSpike
    \/ Sense(WarmedTemps, BandSteps, MaxTempTicks)
    \/ CheckSpike
    \/ TempBranch
    \/ Apply
    \/ EndTick

SpecTemp == Init /\ [][NextTemp]_vars

\* The loop under constant CPU usage with the main thread and the sampler thread
\* both scheduled again and again: whatever step a thread is at is eventually taken
MainStep ==
    \/ Sense(QuietTemps, LiveSteps, MaxLiveTicks)
    \/ CheckSpike
    \/ TempBranch
    \/ Apply
    \/ EndTick

SamplerStep ==
    \/ SampleUsage(QuietUsages, MaxLiveSamples)
    \/ SetSpike

NextLive == MainStep \/ SamplerStep

SpecLive == Init /\ [][NextLive]_vars /\ WF_vars(MainStep) /\ WF_vars(SamplerStep)

---------------------------------------------------------------------------
\* Properties.  A tick has finished its decision when pc = "clear": new_speed is the
\* proposal, pre holds the controller state the tick started with, act and notes
\* what the tick did.

TickDone == pc = "clear"

\* C1: on a tick whose proposal is below the speed it started with, set_fan_speed is
\* called only if the drop timer was already running when the tick began, at least
\* DROP_DELAY seconds have passed since it started and the cooldown is over; on the
\* tick that starts the timer and on every tick where a guard fails there is no call
\* and current_speed keeps its value.
C1_DecreaseGuard ==
    (TickDone /\ new_speed < pre.cur) =>
        LET due == pre.dds # 0 /\ now - pre.dds >= DROP_DELAY /\ now >= pre.cool
        IN  /\ act.called => due
            /\ current_speed # pre.cur => due
            /\ ~due => (~act.called /\ current_speed = pre.cur /\ fan_byte = pre.cur)
            /\ pre.dds = 0 => (drop_delay_start = now /\ ~act.called)

\* C1 witness: a decrease applied once both guards passed
C1_Witness ==
    /\ TickDone /\ new_speed < pre.cur
    /\ pre.dds # 0 /\ now - pre.dds >= DROP_DELAY /\ now >= pre.cool
    /\ act.called /\ act.ok /\ current_speed = new_speed

\* C2: a tick whose proposal is above the speed it started with calls set_fan_speed
\* with that proposal on the same tick, whatever cooldown_end and drop_delay_start
\* are, and a successful call leaves current_speed at the proposal.
C2_ImmediateIncrease ==
    (TickDone /\ new_speed > pre.cur) =>
        /\ act.called /\ act.level = new_speed
        /\ act.ok => current_speed = new_speed

\* C2 witness: an increase applied during the cooldown with a decrease pending
C2_Witness ==
    /\ TickDone /\ new_speed > pre.cur
    /\ pre.dds # 0 /\ now < pre.cool
    /\ act.called /\ act.ok /\ current_speed = new_speed

\* C3: whenever a decrease is applied, no tick since the one that started the drop
\* timer proposed a target equal to or above current_speed (such a tick restarts the
\* wait, also when its increase failed at the actuator).
C3_SustainedProposal ==
    (TickDone /\ act.branch = "decrease" /\ act.ok) => ~interrupted

\* C4: a tick whose proposal equals current_speed leaves drop_delay_start unset, and a
\* decrease attempted after a cancelling tick comes at least DROP_DELAY seconds
\* after the first lower proposal that followed it.
C4_Cancellation ==
    /\ (TickDone /\ new_speed = pre.cur) => drop_delay_start = 0
    /\ (TickDone /\ cancel.seen /\ act.branch = "decrease" /\ act.called) =>
           (cancel.first_lower # 0 /\ now - cancel.first_lower >= DROP_DELAY)

\* C4 witness: a decrease applied after an earlier pending decrease was cancelled
C4_Witness ==
    /\ TickDone /\ cancel.seen /\ cancel.first_lower # 0
    /\ act.branch = "decrease" /\ act.ok /\ current_speed = new_speed

\* C5: a tick whose proposal equals current_speed makes no set_fan_speed call, sends
\* no notification and leaves current_speed, cooldown_end and last_trigger alone.
C5_Idempotence ==
    (TickDone /\ new_speed = pre.cur) =>
        /\ ~act.called /\ fan_byte = pre.cur
        /\ notes = <<>>
        /\ current_speed = pre.cur /\ cooldown_end = pre.cool /\ last_trigger = pre.lt

\* C5 witness: the second of two matching ticks in a row, the cooldown still running
C5_Witness ==
    /\ TickDone /\ new_speed = pre.cur
    /\ pre.last.branch = "nochange" /\ now < cooldown_end

\* C6 as claimed: a tick that took the spike branch and proposes a target >= the
\* speed it started with (equal included) calls set_fan_speed and, on success, sets
\* cooldown_end = now + HOLD_TIME and records last_trigger.
C6_SpikeNonDecrease ==
    (TickDone /\ act.prop = "spike" /\ new_speed >= pre.cur) =>
        /\ act.called
        /\ act.ok => (cooldown_end = now + HOLD_TIME /\ last_trigger.time = now
                      /\ last_trigger.reason = reason)

\* C6 amended: a tick that took the spike branch and proposes a target strictly
\* above the speed it started with calls set_fan_speed and, on success, sets
\* cooldown_end = now + HOLD_TIME and records last_trigger; when the target equals
\* that speed there is no call, and cooldown_end and last_trigger keep their values.
C6_SpikeIncrease ==
    /\ (TickDone /\ act.prop = "spike" /\ new_speed > pre.cur) =>
          /\ act.called /\ act.level = new_speed
          /\ act.ok => (/\ current_speed = new_speed
                        /\ cooldown_end = now + HOLD_TIME
                        /\ last_trigger.time = now /\ last_trigger.reason = reason)
    /\ (TickDone /\ act.prop = "spike" /\ new_speed = pre.cur) =>
          (~act.called /\ cooldown_end = pre.cool /\ last_trigger = pre.lt)

\* C6 witness: a spike-driven increase applied
C6_Witness ==
    /\ TickDone /\ act.prop = "spike" /\ new_speed > pre.cur
    /\ act.ok /\ cooldown_end = now + HOLD_TIME

\* C7: when set_fan_speed fails (all RETRIES attempts), the tick ends with
\* current_speed, cooldown_end, drop_delay_start and last_trigger as it found them
\* and sends no notification; a later tick that proposes the change again calls
\* set_fan_speed again.
C7_FailureKeepsState ==
    /\ (TickDone /\ act.called /\ ~act.ok) =>
          /\ current_speed = pre.cur /\ cooldown_end = pre.cool
          /\ drop_delay_start = pre.dds /\ last_trigger = pre.lt
          /\ fan_byte = pre.cur
          /\ notes = <<>>
    /\ (TickDone /\ ~pre.last.ok /\ pre.last.branch = "increase" /\ new_speed > pre.cur)
          => act.called
    /\ (TickDone /\ ~pre.last.ok /\ pre.last.branch = "decrease" /\ new_speed < pre.cur)
          => act.called

\* C7 witness: a due decrease that failed on one tick and was applied on the next
C7_Witness ==
    /\ TickDone /\ ~pre.last.ok /\ pre.last.branch = "decrease"
    /\ new_speed < pre.cur /\ act.called /\ act.ok

\* C8: after a tick on which set_fan_speed succeeded, current_speed is the proposal,
\* cooldown_end is that tick's now + HOLD_TIME, drop_delay_start is unset,
\* last_trigger holds that tick's reason and time, and exactly one notification was
\* sent, "Increased" for a proposal above the old speed and "Decreased" for one below.
C8_StateAfterChange ==
    (TickDone /\ act.ok) =>
        /\ new_speed # pre.cur
        /\ current_speed = new_speed /\ fan_byte = new_speed
        /\ cooldown_end = now + HOLD_TIME
        /\ drop_delay_start = 0
        /\ last_trigger.reason = reason /\ last_trigger.time = now
        /\ Len(notes) = 1
        /\ notes[1].direction = (IF new_speed > pre.cur THEN "Increased" ELSE "Decreased")
        /\ notes[1].speed = new_speed

\* C8 witness: a decrease applied and notified
C8_Witness ==
    /\ TickDone /\ act.ok /\ new_speed < pre.cur
    /\ Len(notes) = 1 /\ notes[1].direction = "Decreased"

\* The bands the claims give for a spike of a given size
SpikeBand(size) ==
    IF size > 25 THEN 100 ELSE IF size > 15 THEN 80 ELSE IF size > 10 THEN 60 ELSE 40

\* C9: on a tick that took the spike branch, the proposal is the band of the
\* spike_size the tick read (of one of the values it read, if it read several).
C9_SpikeBands ==
    (pc = "apply" /\ act.prop = "spike") =>
        \E i \in 1..Len(ss_read) : new_speed = SpikeBand(ss_read[i])

\* C9, the part that holds: on a tick whose reads of spike_size all returned the same
\* value, the proposal is the band of that value, whatever the temperature state is.
SpikeBandsWhenUntorn ==
    (pc = "apply" /\ act.prop = "spike" /\ \A i \in 1..Len(ss_read) : ss_read[i] = ss_read[1])
        => new_speed = SpikeBand(ss_read[1])

\* The proposal the claims give for the temperature branch; the rate is taken from
\* the window: (max_temp - min(last five entries)) / 5 > 0.5
TempBand(mt, w) ==
    IF mt >= 50 THEN 100
    ELSE IF mt >= 45 THEN 80
    ELSE IF mt >= 40 THEN 60
    ELSE IF mt >= 30 THEN 40
    ELSE IF Len(w) >= 5 /\ 10 * (mt - SeqMin(SubSeq(w, Len(w) - 4, Len(w)))) > 25 THEN 80
    ELSE 25

\* C10: on a tick that did not take the spike branch, the proposal is the
\* temperature band of max_temp, with the fast-rise override only below 30 degrees.
C10_TemperatureBands ==
    (pc = "apply" /\ act.prop = "temp") =>
        /\ new_speed = TempBand(max_temp, temp_window)
        /\ reason = "fast temp rise" => (max_temp < 30 /\ new_speed = 80)

\* C10 witness: the fast-rise override fired
C10_Witness ==
    /\ pc = "apply" /\ act.prop = "temp"
    /\ max_temp < 30 /\ new_speed = 80 /\ Len(temp_window) >= 5

\* C11: current_speed and the proposal are always one of the five levels, and every
\* speed handed to set_fan_speed is one of them, so the level byte sent is the
\* speed's own entry of the table and never the fallback.
C11_DiscreteLevels ==
    /\ current_speed \in Levels
    /\ new_speed \in Levels
    /\ fan_byte \in Levels
    /\ act.called => (new_speed \in Levels /\ act.level = new_speed)

\* C11 witness: a spike-driven change to 40 was handed to set_fan_speed and applied
C11_Witness ==
    /\ TickDone /\ act.prop = "spike" /\ act.called /\ act.ok
    /\ act.level = 40 /\ current_speed = 40

\* C12: on a tick whose sensor read failed (the tool failed, or its output did not
\* parse into the four readings) the process has not crashed at the read, max_temp,
\* last_max_temp and the window are as before the read, and a proposal taken from
\* the temperature is the band of that max_temp.
C12_SensorFailureGraceful ==
    (pre.sensor # "ok") =>
        /\ ~(pc = "crashed" /\ act.prop = "none")
        /\ max_temp = pre.mt /\ last_max_temp = pre.lmt /\ temp_window = pre.tw
        /\ (pc = "apply" /\ act.prop = "temp") => new_speed = TempBand(pre.mt, pre.tw)

\* C12, the part that holds: when ipmitool fails or prints no sensor row, the tick
\* goes on with the temperature state it had.
SensorSkipKeepsState ==
    (pre.sensor = "skipped") =>
        /\ ~(pc = "crashed" /\ act.prop = "none")
        /\ max_temp = pre.mt /\ last_max_temp = pre.lmt /\ temp_window = pre.tw
        /\ (pc = "apply" /\ act.prop = "temp") => new_speed = TempBand(pre.mt, pre.tw)

\* C13: on a tick that took the spike branch every spike_size it read is above 5 and
\* all its reads returned the same value, and what line 210 reads from
\* spike_detected is what line 167 read.
C13_ConsistentSnapshot ==
    /\ (pc \in {"apply", "clear"} /\ act.prop = "spike") =>
           \A i \in 1..Len(ss_read) : ss_read[i] > 5 /\ ss_read[i] = ss_read[1]
    /\ TickDone => \A i \in 1..Len(act.sd210) : act.sd210[i] = (act.prop = "spike")

\* C13, the second part alone: line 210 reads what line 167 read
SameFlagAtApply ==
    TickDone => \A i \in 1..Len(act.sd210) : act.sd210[i] = (act.prop = "spike")

\* C13, the first part alone, on the value line 168 read
SpikeSizeAboveFive ==
    (pc \in {"apply", "clear"} /\ act.prop = "spike") => ss_read[1] > 5

\* C14: every tick ends by clearing spike_detected, so a flag found set at the start
\* of a tick was stored by the sampler after the last clear and has not been read
\* by a tick, and every tick that took the spike branch took it on such a flag: one
\* detection sends at most one tick down the spike branch.
C14_ConsumedOnce ==
    /\ (pc \in {"sense", "spike?"} /\ spike_detected) => fresh
    /\ (act.prop = "spike") => act.fresh

\* C14 witness: a tick took the spike branch without raising the speed (so line 221
\* did not run) and the flag is clear when the tick is over
C14_Witness ==
    /\ pc = "sense" /\ act.prop = "spike" /\ act.branch = "start"
    /\ ~spike_detected

\* C15: when the process has exited because line 143 or line 146 failed, the restore
\* command was sent, it was the last command sent, the loop was never entered, and
\* the exit status is not zero.
C15_StartupFailureFatal ==
    (pc = "exited" /\ restore.why \in {"enable", "init_speed"}) =>
        /\ restore.tries >= 1 /\ last_cmd = "restore"
        /\ tick_no = 0 /\ samples = 0
        /\ exit_status > 0

\* C15, the part that holds: after a startup failure the restore command is the
\* last command sent and the loop and the sampler never ran
StartupFailureRestores ==
    (pc = "exited" /\ restore.why \in {"enable", "init_speed"}) =>
        /\ restore.tries >= 1 /\ last_cmd = "restore"
        /\ tick_no = 0 /\ samples = 0
        /\ ~pid_file

\* C16: when the process has exited on a signal that arrived in the loop, the restore
\* command was run until it succeeded or its RETRIES attempts were used up, the PID
\* file is gone, and the restore command is the last command that was sent (no
\* set-speed command after it).
C16_ShutdownOrdering ==
    (pc = "exited" /\ restore.why = "signal") =>
        /\ restore.tries >= 1
        /\ restore.ok \/ restore.tries = RETRIES
        /\ ~pid_file
        /\ last_cmd = "restore"

\* C16 witness: the signal arrived during the second attempt of a set-speed command
\* and the restore command went through on its third attempt
C16_Witness ==
    /\ pc = "exited" /\ restore.why = "signal"
    /\ restore.sets = 2 /\ restore.ok /\ restore.tries = RETRIES
    /\ ~pid_file

\* C17: while a decrease is pending, a tick that proposes a target below
\* current_speed and does not lower the speed leaves drop_delay_start as it was,
\* whatever target the earlier ticks proposed; when the guards pass and the call
\* succeeds, the speed applied is the proposal of that very tick.
C17_TargetChange ==
    /\ (TickDone /\ pre.dds # 0 /\ new_speed < pre.cur /\ ~act.ok) =>
           (drop_delay_start = pre.dds /\ current_speed = pre.cur)
    /\ (TickDone /\ act.branch = "decrease" /\ act.ok) =>
           (current_speed = new_speed /\ fan_byte = new_speed
            /\ now - pre.dds >= DROP_DELAY)

\* C17 witness: the timer was started by a proposal of 40 on the tick before, and
\* this tick proposes 25 for the first time and applies it
C17_Witness ==
    /\ TickDone /\ act.branch = "decrease" /\ act.ok
    /\ pre.last.branch = "start" /\ pre.last.target = 40
    /\ new_speed = 25 /\ current_speed = 25 /\ pre.cur = 100

\* C17, the other case reached: a held tick whose target differs from the one that
\* started the timer
HeldWithNewTarget ==
    /\ TickDone /\ act.branch = "hold"
    /\ pre.last.branch = "start" /\ pre.last.target = 40 /\ new_speed = 25
    /\ drop_delay_start = pre.dds

\* C18: a tick that ends with max_temp >= 50 and on which set_fan_speed did not fail
\* ends with current_speed = 100, and a tick with max_temp >= 50 that began at 100
\* ends at 100.
C18_ThermalEmergency ==
    /\ (TickDone /\ max_temp >= 50 /\ (act.called => act.ok)) => current_speed = 100
    /\ (TickDone /\ max_temp >= 50 /\ pre.cur = 100) => current_speed = 100

\* C18, the second part alone: no tick with max_temp >= 50 lowers the speed from 100
ThermalFloorHeld ==
    (TickDone /\ max_temp >= 50 /\ pre.cur = 100) => current_speed = 100

\* C18, the part that holds: a tick with max_temp >= 50 that did not take the spike
\* branch proposes 100 and, unless set_fan_speed fails, ends at 100
ThermalEmergencyWithoutSpike ==
    (TickDone /\ max_temp >= 50 /\ act.prop = "temp") =>
        /\ new_speed = 100
        /\ (act.called => act.ok) => current_speed = 100

\* C19: no True stored by the sampler is destroyed before a tick has read it: not by
\* the sampler's next store, not by a clear of the main loop.
C19_NoLostSpikes == lost = "no"

\* C19, one way alone: the sampler never overwrites its own unread True
NotOverwritten == lost # "overwritten by the next sample"

\* C19, the other way alone: line 244 never clears an unread True
NotClearedAtEnd == lost # "cleared at line 244"

\* C19, line 221 never clears an unread True
NotClearedAfterIncrease == lost # "cleared at line 221"

\* A tick ended with a decrease pending and the run has ticks left for DROP_DELAY to
\* pass: two after the tick that started the timer, one after a tick that held
DecreasePending ==
    /\ TickDone
    /\ \/ act.branch = "start" /\ tick_no + 2 <= MaxLiveTicks
       \/ act.branch = "hold" /\ tick_no + 1 <= MaxLiveTicks

\* A tick lowered current_speed to its proposal
DecreaseApplied ==
    TickDone /\ act.branch = "decrease" /\ act.ok /\ current_speed = new_speed
             /\ current_speed < pre.cur

\* One of the claim's conditions failed: a tick proposed a target that is not below
\* current_speed, set_fan_speed failed, or the loop stopped
ConditionsBroken ==
    \/ TickDone /\ new_speed >= pre.cur
    \/ TickDone /\ act.called /\ ~act.ok
    \/ pc = "crashed"

\* C20: once a decrease is pending, the speed is eventually lowered to the proposal
\* of some later tick, unless a tick proposes a target that is not below
\* current_speed, set_fan_speed fails or the loop stops.
C20_DecreaseEventuallyApplied == DecreasePending ~> (DecreaseApplied \/ ConditionsBroken)

\* C20 witness: a decrease applied on the tick after one that held it
C20_Witness ==
    /\ DecreaseApplied /\ pre.last.branch = "hold"
    /\ now - pre.dds >= DROP_DELAY

====
